---- MODULE Spec2Model ----
(***************************************************************************)
(* Model of kipoi/data.py: the dataloader class hierarchy (PreloadedDataset,*)
(* Dataset, BatchDataset, SampleIterator, BatchIterator, SampleGenerator,  *)
(* BatchGenerator) and the dynamic loader get_dataloader_factory.           *)
(*                                                                         *)
(* Python classes are mutable objects: `classes` holds the attributes that  *)
(* from_fn and get_dataloader_factory write on them.  `inst` is the loader *)
(* instance under study, `iters` the iterators handed out for it by iter / *)
(* batch_iter / batch_train_iter / batch_predict_iter.  `ret` is the       *)
(* outcome of the last call: its arguments, and its return value or the    *)
(* exception it raised.  `dlIter` is the iterator of a DataLoader that   *)
(* fetches its batches with worker processes.                              *)
(***************************************************************************)
EXTENDS Integers, Sequences, FiniteSets, TLC

VARIABLES classes, inst, iters, ret, nLoads, dlIter

vars == <<classes, inst, iters, ret, nLoads, dlIter>>

----------------------------------------------------------------------------
(* Bounds *)

MaxLoads == 2      \* calls of get_dataloader_factory in one behaviour
MaxN == 3          \* samples a user source produces
MaxIters == 1      \* batch iterators handed out for the instance
MaxStreams == 2    \* iterators in all, those of iter() included
MaxYield == 4      \* items pulled from one iterator
MaxWorkers == 2    \* largest num_workers a caller passes

----------------------------------------------------------------------------
(* The registry at the bottom of data.py *)

AVAILABLE_DATALOADERS ==
    {"PreloadedDataset", "Dataset", "BatchDataset", "SampleIterator",
     "SampleGenerator", "BatchIterator", "BatchGenerator"}

DATALOADERS_AS_FUNCTIONS == {"PreloadedDataset", "SampleGenerator", "BatchGenerator"}

----------------------------------------------------------------------------
(* User artefacts a dataloader.yaml can point at (defined_as).             *)
(* fnA, fnB are plain functions; the cls* are classes with the base named  *)
(* in Base.                                                                *)

Functions == {"fnA", "fnB"}
UserClasses == {"clsD", "clsBD", "clsS", "clsI", "clsG", "clsX"}
Candidates == Functions \cup UserClasses

Base(c) ==
    CASE c = "clsD"  -> "Dataset"
      [] c = "clsBD" -> "BatchDataset"
      [] c = "clsS"  -> "SampleIterator"
      [] c = "clsI"  -> "BatchIterator"
      [] c = "clsG"  -> "SampleGenerator"
      [] OTHER       -> "object"

\* isinstance(CustomDataLoader, types.FunctionType)
IsFunction(c) == c \in Functions

\* issubclass(c, v) for a class c
IsSubclass(c, v) == c = v \/ Base(c) = v

\* kipoi.utils.getargs: the parameter names of the function, or of the
\* class's constructor
getargs(c) ==
    CASE c = "fnB"  -> {"a", "c"}
      [] c = "clsX" -> {"a"}
      [] OTHER      -> {"a", "b"}

DeclaredArgSets == {{"a", "b"}, {"a", "c"}, {"a"}}
TypeNames == AVAILABLE_DATALOADERS \cup {"Iterator"}

\* The dataloader (its directory in the source) an artefact is defined in
NameOf(c) ==
    CASE c = "fnA" -> "dlA"
      [] c = "fnB" -> "dlB"
      [] OTHER     -> "dlC"

\* DataLoaderDescription.load: the parsed dataloader.yaml of a dataloader
Descriptions ==
    {[name |-> NameOf(c), type |-> t, args |-> a, defined_as |-> c] :
        t \in TypeNames, a \in DeclaredArgSets, c \in Candidates}

ClassNames == AVAILABLE_DATALOADERS \cup UserClasses

----------------------------------------------------------------------------
(* Class objects and what gets written on them *)

\* A class before anything is bound on it: data_fn / generator_fn = None and
\* none of the attributes of get_dataloader_factory present.
NoAttrs ==
    [fn |-> "None", type |-> "None", defined_as |-> "None", args |-> <<>>,
     info |-> "None", output_schema |-> "None", dependencies |-> "None",
     postprocessing |-> "None", yaml_path |-> "None", source |-> "None",
     source_dir |-> "None", example_kwargs |-> "None",
     init_example |-> FALSE, print_args |-> FALSE]

\* Outcome of a call: exc is the Python exception type ("None" when the call
\* returned), kind says which raise / assert it came from, msg what the message
\* reports, val the value returned.
Returned(op, call, val) ==
    [op |-> op, call |-> call, exc |-> "None", kind |-> "None", msg |-> <<>>, val |-> val]
Raised(op, call, exc, kind, msg) ==
    [op |-> op, call |-> call, exc |-> exc, kind |-> kind, msg |-> msg, val |-> <<>>]

\* cls.data_fn = staticmethod(data_fn) / cls.generator_fn = staticmethod(generator_fn);
\* return cls.  The binding is written on the variant class itself.
from_fn(cl, variant, fn) == [cl EXCEPT ![variant].fn = fn]

\* Lines 475-486: the attributes copied from the description
BindMetadata(cl, target, dl) ==
    [cl EXCEPT ![target].type = dl.type,
               ![target].defined_as = dl.defined_as,
               ![target].args = <<dl.args>>,
               ![target].info = dl.name,
               ![target].output_schema = dl.name,
               ![target].dependencies = dl.name,
               ![target].postprocessing = dl.name,
               ![target].yaml_path = dl.name,
               ![target].source = "kipoi",
               ![target].source_dir = dl.name]

\* Lines 490-495: example_kwargs, init_example, print_args
BindExample(cl, target, dl) ==
    [cl EXCEPT ![target].example_kwargs = dl.name,
               ![target].init_example = TRUE,
               ![target].print_args = TRUE]

\* What issubclass(f, V) does when f is a plain function: Python 3 raises
\* TypeError (arg 1 must be a class); under Python 2 the __metaclass__ =
\* abc.ABCMeta of the variants answers False.
IssubclassOfFunction == {"TypeError", "False"}

\* A check that lets every name through
TypeKnownAnything(dl) == dl.type \in TypeNames

\* Line 453: dl.type in AVAILABLE_DATALOADERS
TypeKnown(dl) == dl.type \in AVAILABLE_DATALOADERS

\* A check that accepts a description declaring more than the candidate takes
ArgsMatchSubset(dl) == getargs(dl.defined_as) \subseteq dl.args

\* Line 457: getargs(CustomDataLoader) == set(dl.args.keys())
ArgsMatch(dl) == getargs(dl.defined_as) = dl.args

\* Lines 462-469, for a candidate that passed the two checks above: "ok", or
\* the failure of the assert, of issubclass itself, or of the subclass test
ContractCheck(dl, fnSub) ==
    LET c == dl.defined_as IN
    IF dl.type \in DATALOADERS_AS_FUNCTIONS
    THEN IF IsFunction(c) THEN "ok" ELSE "NotAFunction"
    ELSE IF IsFunction(c)
         THEN IF fnSub = "TypeError" THEN "IssubclassArg" ELSE "ContractMismatch"
         ELSE IF IsSubclass(c, dl.type) THEN "ok" ELSE "ContractMismatch"

\* The class the attributes are written on: the variant class for a
\* function-derived variant (from_fn returns cls), else the user's class
Target(dl) == IF dl.type \in DATALOADERS_AS_FUNCTIONS THEN dl.type ELSE dl.defined_as

\* Lines 462-465 and 475-497 once validation has passed
Bind(cl, dl, exampleOk) ==
    LET cl1 == IF dl.type \in DATALOADERS_AS_FUNCTIONS
               THEN from_fn(cl, dl.type, dl.defined_as) ELSE cl
        cl2 == BindMetadata(cl1, Target(dl), dl)
    IN IF ~exampleOk
       THEN <<cl2, Raised("get_dataloader_factory", <<dl>>, "IOError", "ExampleKwargs", <<>>)>>
       ELSE <<BindExample(cl2, Target(dl), dl),
              Returned("get_dataloader_factory", <<dl>>, <<Target(dl)>>)>>

\* A get_dataloader_factory that adapts the function and copies the
\* description before it validates
LoadOutcomeBindFirst(cl, dl, exampleOk, fnSub) ==
    LET cl1 == IF dl.type \in DATALOADERS_AS_FUNCTIONS /\ IsFunction(dl.defined_as)
               THEN from_fn(cl, dl.type, dl.defined_as) ELSE cl
    IN
    IF ~TypeKnown(dl)
    THEN <<cl, Raised("get_dataloader_factory", <<dl>>, "ValueError", "UnknownVariant",
                      <<dl.type, AVAILABLE_DATALOADERS>>)>>
    ELSE IF ~ArgsMatch(dl)
    THEN <<cl1, Raised("get_dataloader_factory", <<dl>>, "ValueError", "ArgumentMismatch",
                       <<getargs(dl.defined_as), dl.args>>)>>
    ELSE IF ContractCheck(dl, fnSub) = "ContractMismatch"
    THEN <<BindMetadata(cl, dl.defined_as, dl),
           Raised("get_dataloader_factory", <<dl>>, "ValueError", "ContractMismatch",
                  <<dl.type>>)>>
    ELSE IF ContractCheck(dl, fnSub) # "ok"
    THEN <<cl, Raised("get_dataloader_factory", <<dl>>,
                      IF ContractCheck(dl, fnSub) = "NotAFunction"
                      THEN "AssertionError" ELSE "TypeError",
                      ContractCheck(dl, fnSub), <<>>)>>
    ELSE Bind(cl, dl, exampleOk)

\* get_dataloader_factory, lines 452-497, for the parsed description dl.
\* exampleOk: whether example_kwargs (which downloads files) returns.
\* fnSub: the interpreter's answer to issubclass on a function.
\* Gives <<classes after the call, outcome>>.
LoadOutcome(cl, dl, exampleOk, fnSub) ==
    IF ~TypeKnown(dl)
    THEN <<cl, Raised("get_dataloader_factory", <<dl>>, "ValueError", "UnknownVariant",
                      <<dl.type, AVAILABLE_DATALOADERS>>)>>
    ELSE IF ~ArgsMatch(dl)
    THEN <<cl, Raised("get_dataloader_factory", <<dl>>, "ValueError", "ArgumentMismatch",
                      <<getargs(dl.defined_as), dl.args>>)>>
    ELSE IF ContractCheck(dl, fnSub) = "ContractMismatch"
    THEN <<cl, Raised("get_dataloader_factory", <<dl>>, "ValueError", "ContractMismatch",
                      <<dl.type>>)>>
    ELSE IF ContractCheck(dl, fnSub) # "ok"
    THEN <<cl, Raised("get_dataloader_factory", <<dl>>,
                      IF ContractCheck(dl, fnSub) = "NotAFunction"
                      THEN "AssertionError" ELSE "TypeError",
                      ContractCheck(dl, fnSub), <<>>)>>
    ELSE Bind(cl, dl, exampleOk)

----------------------------------------------------------------------------
(* Data: a sample is a dict with the leaves inputs and targets; a batch, and *)
(* the full structure of a preloaded dataset, is the same dict with arrays  *)
(* (sequences along the first axis) at the leaves.                          *)

Seed(src) ==
    CASE src = "fnA"   -> 100
      [] src = "fnB"   -> 200
      [] src = "clsD"  -> 300
      [] src = "clsBD" -> 400
      [] src = "clsS"  -> 500
      [] src = "clsI"  -> 600
      [] OTHER         -> 700

\* The i-th sample (from 0) the user source src produces
Sample(src, i) == [inputs |-> Seed(src) + i, targets |-> Seed(src) + 50 + i]

\* The samples src produces when constructed / called with n
Samples(src, n) == [i \in 1..n |-> Sample(src, i - 1)]

\* A user function bound with PreloadedDataset.from_fn, called with the
\* construction arguments: the full structure; skew makes the targets leaf
\* shorter than the inputs leaf.
FullData(src, args) ==
    [inputs  |-> [i \in 1..args.n |-> Seed(src) + i - 1],
     targets |-> [i \in 1..(args.n - args.skew) |-> Seed(src) + 50 + i - 1]]

\* kipoi.data_utils.numpy_collate: stack the samples along a new first axis
numpy_collate(samples) ==
    [inputs  |-> [i \in 1..Len(samples) |-> samples[i].inputs],
     targets |-> [i \in 1..Len(samples) |-> samples[i].targets]]

\* kipoi.data_utils.numpy_collate_concat: concatenate the batches along the
\* first axis
RECURSIVE numpy_collate_concat(_)
numpy_collate_concat(batches) ==
    IF batches = <<>> THEN [inputs |-> <<>>, targets |-> <<>>]
    ELSE LET rest == numpy_collate_concat(Tail(batches)) IN
         [inputs  |-> Head(batches).inputs \o rest.inputs,
          targets |-> Head(batches).targets \o rest.targets]

\* kipoi.data_utils.get_dataset_item: slice every leaf at index (from 0)
get_dataset_item(data, index) ==
    [inputs |-> data.inputs[index + 1], targets |-> data.targets[index + 1]]

\* kipoi.data_utils.get_dataset_lens: first-axis length of every leaf
get_dataset_lens(data) == <<Len(data.inputs), Len(data.targets)>>

\* set(lens)
SetOf(seq) == {seq[i] : i \in 1..Len(seq)}

\* torch BatchSampler: group the sampler's indices into lists of batch_size,
\* the last one shorter, or dropped under drop_last
RECURSIVE BatchSampler(_, _, _)
BatchSampler(order, batch_size, drop_last) ==
    IF Len(order) >= batch_size
    THEN <<SubSeq(order, 1, batch_size)>>
         \o BatchSampler(SubSeq(order, batch_size + 1, Len(order)), batch_size, drop_last)
    ELSE IF Len(order) > 0 /\ ~drop_last THEN <<order>> ELSE <<>>

\* The orders a sampler over n indices can produce: 0..n-1 for the sequential
\* sampler, any permutation for the random one
Orders(n, shuffle) ==
    IF shuffle
    THEN {o \in [1..n -> 0..(n - 1)] : \A i, j \in 1..n : o[i] = o[j] => i = j}
    ELSE {[i \in 1..n |-> i - 1]}

\* kipoi.data_utils.batch_gen: collect up to batch_size consecutive samples and
\* collate them; the last group may be smaller
RECURSIVE batch_gen(_, _)
batch_gen(samples, batch_size) ==
    IF samples = <<>> THEN <<>>
    ELSE IF Len(samples) <= batch_size THEN <<numpy_collate(samples)>>
    ELSE <<numpy_collate(SubSeq(samples, 1, batch_size))>>
         \o batch_gen(SubSeq(samples, batch_size + 1, Len(samples)), batch_size)

\* Batches a user batch source (BatchDataset, BatchIterator, or the function
\* behind BatchGenerator) holds: its samples in groups of UserBatchLen
UserBatchLen == 2
UserBatches(src, n) == batch_gen(Samples(src, n), UserBatchLen)

----------------------------------------------------------------------------
(* Instances *)

MaxBatch == 2      \* largest batch_size a caller passes

Params == [batch_size : 1..MaxBatch, shuffle : BOOLEAN, drop_last : BOOLEAN]

NoData == [inputs |-> <<>>, targets |-> <<>>]
NoInst == [cls |-> "None", args |-> [n |-> 0, skew |-> 0], data |-> NoData,
           n |-> 0, pos |-> 0]

\* Classes one can instantiate: the function-derived variants themselves (what
\* from_fn returns is the variant class) and the user's subclasses
Factories == DATALOADERS_AS_FUNCTIONS \cup {"clsD", "clsBD", "clsS", "clsI"}

Variant(cls) == IF cls \in AVAILABLE_DATALOADERS THEN cls ELSE Base(cls)

\* A constructor that does not compare the leaf lengths
PreloadedDataset_init_NoCheck(cl, args) ==
    IF cl["PreloadedDataset"].fn = "None"
    THEN [ok |-> FALSE, kind |-> "UnboundFunction", inst |-> NoInst]
    ELSE LET data == FullData(cl["PreloadedDataset"].fn, args)
             lens == get_dataset_lens(data)
         IN [ok |-> TRUE, kind |-> "None",
             inst |-> [cls |-> "PreloadedDataset", args |-> args, data |-> data,
                       n |-> lens[1], pos |-> 0]]

\* PreloadedDataset.__init__: call data_fn, take the leaf lengths, assert that
\* there is exactly one distinct length, keep it as self.n
PreloadedDataset_init(cl, args) ==
    IF cl["PreloadedDataset"].fn = "None"
    THEN [ok |-> FALSE, kind |-> "UnboundFunction", inst |-> NoInst]
    ELSE LET data == FullData(cl["PreloadedDataset"].fn, args)
             lens == get_dataset_lens(data)
         IN IF ~(Cardinality(SetOf(lens)) = 1)
            THEN [ok |-> FALSE, kind |-> "DimensionMismatch", inst |-> NoInst]
            ELSE [ok |-> TRUE, kind |-> "None",
                  inst |-> [cls |-> "PreloadedDataset", args |-> args, data |-> data,
                            n |-> lens[1], pos |-> 0]]

\* SampleGenerator.__init__ / BatchGenerator.__init__ (self.args, self.kwargs)
\* and the constructors of the user's classes: keep the arguments
Other_init(cls, args) ==
    [cls |-> cls, args |-> args, data |-> NoData, n |-> 0, pos |-> 0]

Construct(cls, args) ==
    /\ inst = NoInst
    /\ IF cls = "PreloadedDataset"
       THEN LET r == PreloadedDataset_init(classes, args) IN
            /\ inst' = r.inst
            /\ ret' = IF r.ok THEN Returned("__init__", <<cls, args>>, <<>>)
                      ELSE Raised("__init__", <<cls, args>>, "AssertionError", r.kind, <<>>)
       ELSE /\ args.skew = 0
            /\ inst' = Other_init(cls, args)
            /\ ret' = Returned("__init__", <<cls, args>>, <<>>)
    /\ UNCHANGED <<classes, iters, nLoads, dlIter>>

\* PreloadedDataset.__len__ / the user's __len__
len(in) ==
    CASE Variant(in.cls) = "PreloadedDataset" -> in.n
      [] Variant(in.cls) = "BatchDataset"     -> Len(UserBatches(in.cls, in.args.n))
      [] OTHER                                -> in.args.n

\* PreloadedDataset.__getitem__ / the user's __getitem__
getitem(in, index) ==
    CASE Variant(in.cls) = "PreloadedDataset" -> get_dataset_item(in.data, index)
      [] Variant(in.cls) = "BatchDataset"     -> UserBatches(in.cls, in.args.n)[index + 1]
      [] OTHER                                -> Sample(in.cls, index)

----------------------------------------------------------------------------
(* Batch iteration *)

\* torch DataLoader over an indexable dataset: one pass per sampler order
DataLoader(in, batch_size, collate_fn, shuffle, drop_last) ==
    { LET idx == BatchSampler(o, batch_size, drop_last) IN
      [j \in 1..Len(idx) |->
         LET items == [k \in 1..Len(idx[j]) |-> getitem(in, idx[j][k])] IN
         IF collate_fn = "numpy_collate"
         THEN numpy_collate(items) ELSE numpy_collate_concat(items)]
      : o \in Orders(len(in), shuffle) }

\* A batch_iter that does not hand drop_last on to the DataLoader
PreloadedDataset_batch_iter_KeepLast(in, p) ==
    DataLoader(in, p.batch_size, "numpy_collate", p.shuffle, FALSE)

\* PreloadedDataset._batch_iterable / batch_iter
PreloadedDataset_batch_iter(in, p) ==
    DataLoader(in, p.batch_size, "numpy_collate", p.shuffle, p.drop_last)

\* Dataset._batch_iterable / batch_iter
Dataset_batch_iter(in, p) ==
    DataLoader(in, p.batch_size, "numpy_collate", p.shuffle, p.drop_last)

\* A batch_iter that hands the caller's batch_size, shuffle and drop_last on
BatchDataset_batch_iter_Forward(in, p) ==
    DataLoader(in, p.batch_size, "numpy_collate_concat", p.shuffle, p.drop_last)

\* BatchDataset._batch_iterable / batch_iter: batch_size=1, shuffle=False,
\* drop_last=False whatever the caller passes
BatchDataset_batch_iter(in, p) ==
    DataLoader(in, 1, "numpy_collate_concat", FALSE, FALSE)

\* SampleGenerator.__iter__ / BatchGenerator.__iter__: call the function bound
\* on the class with the instance's arguments
Generator_iter(cl, in) ==
    IF Variant(in.cls) = "SampleGenerator"
    THEN Samples(cl[in.cls].fn, in.args.n)
    ELSE UserBatches(cl[in.cls].fn, in.args.n)

\* A batch_iter that does not hand batch_size on, so that batch_gen groups by
\* its default of 32
SampleGenerator_batch_iter_DefaultSize(cl, in, p) == {batch_gen(Generator_iter(cl, in), 32)}

\* SampleGenerator.batch_iter
SampleGenerator_batch_iter(cl, in, p) == {batch_gen(Generator_iter(cl, in), p.batch_size)}

\* BatchGenerator.batch_iter
BatchGenerator_batch_iter(cl, in, p) == {Generator_iter(cl, in)}

\* Variants whose iter(self) is the instance itself: one cursor, shared by
\* everything that iterates the instance
SharesCursor(in) == Variant(in.cls) \in {"SampleIterator", "BatchIterator"}

\* _get_generator_fn: assert cls.generator_fn is not None
FnBound(cl, in) ==
    Variant(in.cls) \in {"SampleGenerator", "BatchGenerator"} => cl[in.cls].fn # "None"

\* The passes a call of batch_iter(**p) can go through, for the variants that
\* start a pass of their own
batch_iter(cl, in, p) ==
    CASE Variant(in.cls) = "PreloadedDataset" -> PreloadedDataset_batch_iter(in, p)
      [] Variant(in.cls) = "Dataset"          -> Dataset_batch_iter(in, p)
      [] Variant(in.cls) = "BatchDataset"     -> BatchDataset_batch_iter(in, p)
      [] Variant(in.cls) = "SampleGenerator"  -> SampleGenerator_batch_iter(cl, in, p)
      [] Variant(in.cls) = "BatchGenerator"   -> BatchGenerator_batch_iter(cl, in, p)

\* What the user's iterator still has to give: the samples (SampleIterator) or
\* batches (BatchIterator) after the cursor
Remaining(in) ==
    LET all == IF Variant(in.cls) = "SampleIterator"
               THEN Samples(in.cls, in.args.n) ELSE UserBatches(in.cls, in.args.n)
    IN SubSeq(all, in.pos + 1, Len(all))

\* SampleIterator.batch_iter / BatchIterator.batch_iter on the rest of the
\* instance's iterator
Cursor_batch_iter(in, p) ==
    IF Variant(in.cls) = "SampleIterator"
    THEN batch_gen(Remaining(in), p.batch_size) ELSE Remaining(in)

----------------------------------------------------------------------------
(* Iterators.  An iterator record: op, the call that made it; cycle and p,   *)
(* its arguments; own, whether it walks a pass of its own (pass, pos) or     *)
(* pulls on the instance's cursor; passes, how many passes it has started;  *)
(* out, what it has yielded so far; state: "live", "done" (StopIteration or *)
(* an exception came out of it), "hang" (a next() that never returns).      *)

DefaultParams == [batch_size |-> 1, shuffle |-> FALSE, drop_last |-> FALSE]

NewIter(op, cycle, p, own, pass) ==
    [op |-> op, cycle |-> cycle, p |-> p, own |-> own, pass |-> pass, pos |-> 0,
     passes |-> IF cycle THEN 0 ELSE 1, out |-> <<>>, state |-> "live"]

\* No call is stuck in a next() that never returns
Running == \A k \in 1..Len(iters) : iters[k].state # "hang"

\* A projection with inputs and targets the wrong way round
ProjectSwapped(op, x) ==
    CASE op = "batch_train_iter"   -> <<x.targets, x.inputs>>
      [] op = "batch_predict_iter" -> x.targets
      [] OTHER                     -> x

\* batch_train_iter yields (x["inputs"], x["targets"]), batch_predict_iter
\* x["inputs"], batch_iter and iter the item itself
Project(op, x) ==
    CASE op = "batch_train_iter"   -> <<x.inputs, x.targets>>
      [] op = "batch_predict_iter" -> x.inputs
      [] OTHER                     -> x

\* iter(instance): SampleGenerator / BatchGenerator call the bound function and
\* give a new generator; SampleIterator / BatchIterator give the instance
Iter ==
    /\ Running
    /\ inst # NoInst
    /\ Len(iters) < MaxStreams
    /\ Variant(inst.cls) \in {"SampleGenerator", "BatchGenerator",
                               "SampleIterator", "BatchIterator"}
    /\ IF SharesCursor(inst)
       THEN /\ iters' = Append(iters, NewIter("iter", FALSE, DefaultParams, FALSE, <<>>))
            /\ ret' = Returned("iter", <<>>, <<Len(iters) + 1>>)
       ELSE IF ~FnBound(classes, inst)
       THEN /\ iters' = iters
            /\ ret' = Raised("iter", <<>>, "AssertionError", "UnboundFunction", <<>>)
       ELSE /\ iters' = Append(iters, NewIter("iter", FALSE, DefaultParams, TRUE,
                                              Generator_iter(classes, inst)))
            /\ ret' = Returned("iter", <<>>, <<Len(iters) + 1>>)
    /\ UNCHANGED <<classes, inst, nLoads, dlIter>>

\* batch_iter(**p), batch_train_iter(cycle, **p), batch_predict_iter(**p).
\* Without cycle the pass is started by the call; with cycle=True
\* iterable_cycle(self._batch_iterable(**p)) starts nothing until the first
\* next().
StartIter(op, cycle, p) ==
    /\ Running
    /\ inst # NoInst
    /\ Len(iters) < MaxIters
    /\ IF cycle
       THEN /\ iters' = Append(iters, NewIter(op, TRUE, p, ~SharesCursor(inst), <<>>))
            /\ ret' = Returned(op, <<cycle, p>>, <<Len(iters) + 1>>)
       ELSE IF SharesCursor(inst)
       THEN /\ iters' = Append(iters, NewIter(op, FALSE, p, FALSE, <<>>))
            /\ ret' = Returned(op, <<cycle, p>>, <<Len(iters) + 1>>)
       ELSE IF ~FnBound(classes, inst)
       THEN /\ iters' = iters
            /\ ret' = Raised(op, <<cycle, p>>, "AssertionError", "UnboundFunction", <<>>)
       ELSE \E pass \in batch_iter(classes, inst, p) :
            /\ iters' = Append(iters, NewIter(op, FALSE, p, TRUE, pass))
            /\ ret' = Returned(op, <<cycle, p>>, <<Len(iters) + 1>>)
    /\ UNCHANGED <<classes, inst, nLoads, dlIter>>

BatchIter == \E p \in Params : StartIter("batch_iter", FALSE, p)

BatchTrainIter == \E cycle \in BOOLEAN, p \in Params : StartIter("batch_train_iter", cycle, p)

BatchPredictIter == \E p \in Params : StartIter("batch_predict_iter", FALSE, p)

\* How many of the user's items one item of the iterator takes from the
\* instance's cursor: batch_gen takes up to batch_size samples, everything
\* else one item
Take(it) ==
    IF Variant(inst.cls) = "SampleIterator" /\ it.op # "iter"
    THEN IF Len(Remaining(inst)) < it.p.batch_size
         THEN Len(Remaining(inst)) ELSE it.p.batch_size
    ELSE IF Len(Remaining(inst)) < 1 THEN 0 ELSE 1

\* The item a next() on the instance's cursor gives
CursorItem(it) ==
    IF Variant(inst.cls) = "SampleIterator" /\ it.op # "iter"
    THEN numpy_collate(SubSeq(Remaining(inst), 1, Take(it)))
    ELSE Remaining(inst)[1]

Yield(k, it, item) ==
    /\ iters' = [iters EXCEPT ![k] = it, ![k].out = Append(it.out, Project(it.op, item))]
    /\ ret' = Returned("next", <<k>>, <<>>)

Stop(k, state, exc, kind) ==
    /\ iters' = [iters EXCEPT ![k].state = state]
    /\ ret' = Raised("next", <<k>>, exc, kind, <<>>)

\* next(iterator) on an iterator with a pass of its own.  When the pass is
\* over: StopIteration, or under cycle the `while True: for x in iterable`
\* of iterable_cycle asks the iterable for a new pass, and goes on doing so
\* until a pass yields something.
PullOwn(k) ==
    LET it == iters[k] IN
    /\ it.own
    /\ IF it.pos < Len(it.pass)
       THEN Yield(k, [it EXCEPT !.pos = it.pos + 1], it.pass[it.pos + 1])
       ELSE IF ~it.cycle
       THEN Stop(k, "done", "StopIteration", "None")
       ELSE IF ~FnBound(classes, inst)
       THEN Stop(k, "done", "AssertionError", "UnboundFunction")
       ELSE \E pass \in batch_iter(classes, inst, it.p) :
            IF pass = <<>>
            THEN Stop(k, "hang", "None", "NeverReturns")
            ELSE Yield(k, [it EXCEPT !.pass = pass, !.pos = 1, !.passes = it.passes + 1],
                       pass[1])
    /\ inst' = inst

\* next(iterator) on an iterator that pulls on the instance: the user's
\* __next__ moves the instance's cursor.  Under cycle a new pass is
\* batch_iter on the same, exhausted, instance.
PullCursor(k) ==
    LET it == iters[k] IN
    /\ ~it.own
    /\ IF Take(it) > 0
       THEN /\ Yield(k, [it EXCEPT !.passes = IF it.passes = 0 THEN 1 ELSE it.passes],
                     CursorItem(it))
            /\ inst' = [inst EXCEPT !.pos = inst.pos + Take(it)]
       ELSE /\ IF it.cycle
               THEN Stop(k, "hang", "None", "NeverReturns")
               ELSE Stop(k, "done", "StopIteration", "None")
            /\ inst' = inst

Pull ==
    \E k \in 1..Len(iters) :
        /\ Running
        /\ iters[k].state = "live"
        /\ Len(iters[k].out) < MaxYield
        /\ (PullOwn(k) \/ PullCursor(k))
        /\ UNCHANGED <<classes, nLoads, dlIter>>

----------------------------------------------------------------------------
(* load_all and from_fn *)

\* A preloaded dataset without its own load_all, falling back on
\* BaseDataLoader.load_all
PreloadedDataset_load_all_Inherited(in, p) ==
    {numpy_collate_concat(pass) : pass \in PreloadedDataset_batch_iter(in, p)}

\* PreloadedDataset.load_all: **kwargs ignored, return self.data
PreloadedDataset_load_all(in, p) == {in.data}

\* Dataset.load_all: numpy_collate_concat over self.batch_iter(batch_size, **kwargs)
Dataset_load_all(in, p) ==
    {numpy_collate_concat(pass) : pass \in Dataset_batch_iter(in, p)}

\* BaseDataLoader.load_all: numpy_collate_concat over self.batch_iter(**kwargs)
BaseDataLoader_load_all(cl, in, p) ==
    IF SharesCursor(in)
    THEN {numpy_collate_concat(Cursor_batch_iter(in, p))}
    ELSE {numpy_collate_concat(pass) : pass \in batch_iter(cl, in, p)}

load_all(cl, in, p) ==
    CASE Variant(in.cls) = "PreloadedDataset" -> PreloadedDataset_load_all(in, p)
      [] Variant(in.cls) = "Dataset"          -> Dataset_load_all(in, p)
      [] OTHER                                -> BaseDataLoader_load_all(cl, in, p)

LoadAll ==
    \E p \in Params :
        /\ Running
        /\ inst # NoInst
        /\ IF ~FnBound(classes, inst)
           THEN /\ ret' = Raised("load_all", <<p>>, "AssertionError", "UnboundFunction", <<>>)
                /\ inst' = inst
           ELSE /\ \E v \in load_all(classes, inst, p) : ret' = Returned("load_all", <<p>>, <<v>>)
                /\ inst' = IF SharesCursor(inst)
                           THEN [inst EXCEPT !.pos = inst.pos + Len(Remaining(inst))]
                           ELSE inst
        /\ UNCHANGED <<classes, iters, nLoads, dlIter>>

\* PreloadedDataset.from_fn / SampleGenerator.from_fn / BatchGenerator.from_fn
\* called on the variant class
FromFn ==
    \E v \in DATALOADERS_AS_FUNCTIONS, f \in Functions :
        /\ Running
        /\ classes[v].fn # f
        /\ \A w \in DATALOADERS_AS_FUNCTIONS \ {v} : classes[w].fn = "None"
        /\ classes' = from_fn(classes, v, f)
        /\ ret' = Returned("from_fn", <<v, f>>, <<v>>)
        /\ UNCHANGED <<inst, iters, nLoads, dlIter>>

\* What the class PreloadedDataset defines or inherits
PreloadedDataset_attrs ==
    {"data_fn", "from_fn", "from_data", "_get_data_fn", "__init__", "__len__",
     "__getitem__", "_batch_iterable", "batch_iter", "load_all",
     "batch_train_iter", "batch_predict_iter"}

\* PreloadedDataset.from_data(data): return cls.from_data_fn(lambda: data)().
\* Looking up an attribute the class does not have raises AttributeError
\* before anything is bound or constructed.
FromData ==
    \E n \in 0..MaxN :
        /\ Running
        /\ "from_data_fn" \notin PreloadedDataset_attrs
        /\ ret' = Raised("from_data", <<FullData("data", [n |-> n, skew |-> 0])>>,
                         "AttributeError", "from_data_fn", <<>>)
        /\ UNCHANGED <<classes, inst, iters, nLoads, dlIter>>

New ==
    \E cls \in Factories, n \in 0..MaxN, skew \in 0..1 :
        /\ Running
        /\ skew <= n
        /\ Construct(cls, [n |-> n, skew |-> skew])

----------------------------------------------------------------------------
(* The dynamic loader as an operation *)

get_dataloader_factory(dl, exampleOk, fnSub) ==
    /\ Running
    /\ nLoads < MaxLoads
    /\ LET out == LoadOutcome(classes, dl, exampleOk, fnSub) IN
        /\ classes' = out[1]
        /\ ret' = out[2]
    /\ nLoads' = nLoads + 1
    /\ UNCHANGED <<inst, iters, dlIter>>

\* The choices that bear on a load: the description, whether example_kwargs
\* returns (it is reached only by a candidate that passed validation), and the
\* interpreter's issubclass (reached only with a function given for a class
\* variant)
Load ==
    \E dl \in Descriptions :
        \E exampleOk \in (IF TypeKnown(dl) /\ ArgsMatch(dl) /\ ContractCheck(dl, "False") = "ok"
                          THEN BOOLEAN ELSE {TRUE}),
           fnSub \in (IF TypeKnown(dl) /\ ArgsMatch(dl) /\ IsFunction(dl.defined_as)
                         /\ dl.type \notin DATALOADERS_AS_FUNCTIONS
                      THEN IssubclassOfFunction ELSE {"TypeError"}) :
            get_dataloader_factory(dl, exampleOk, fnSub)

----------------------------------------------------------------------------
(* Batch iteration with worker processes (num_workers > 0).  The iterator  *)
(* of the DataLoader sends (idx, indices) tasks on index_queue; each worker *)
(* takes a task, fetches and collates the samples and puts (idx, batch) on *)
(* data_queue; next() hands the batches out by idx, keeping those that came *)
(* early in reorder_dict.                                                  *)

\* A _batch_iterable that gives shuffle and drop_last to the DataLoader in
\* each other's place
Dataset_batch_iterable_Swapped(p, num_workers) ==
    [batch_size |-> p.batch_size, collate_fn |-> "numpy_collate",
     shuffle |-> p.drop_last, num_workers |-> num_workers, drop_last |-> p.shuffle]

\* Dataset._batch_iterable: DataLoader(self, batch_size, collate_fn=numpy_collate,
\* shuffle, num_workers, drop_last); the dataset is the instance
Dataset_batch_iterable(p, num_workers) ==
    [batch_size |-> p.batch_size, collate_fn |-> "numpy_collate",
     shuffle |-> p.shuffle, num_workers |-> num_workers, drop_last |-> p.drop_last]

NoLoader ==
    [state |-> "none", p |-> DefaultParams, num_workers |-> 0, batches |-> <<>>,
     send_idx |-> 0, rcvd_idx |-> 0, batches_outstanding |-> 0,
     index_queue |-> <<>>, busy |-> <<>>, data_queue |-> <<>>, reorder_dict |-> {},
     in_next |-> FALSE, out |-> <<>>]

\* DataLoaderIter._put_indices: send the next index list of the batch sampler,
\* if there is one
put_indices(d) ==
    IF d.state # "live" THEN d
    ELSE IF ~(d.batches_outstanding < 2 * d.num_workers)
    THEN [d EXCEPT !.state = "AssertionError"]
    ELSE IF d.send_idx >= Len(d.batches) THEN d
    ELSE [d EXCEPT !.index_queue = Append(@, <<d.send_idx, d.batches[d.send_idx + 1]>>),
                   !.batches_outstanding = @ + 1,
                   !.send_idx = @ + 1]

\* for _ in range(2 * num_workers): self._put_indices()
RECURSIVE Prime(_, _)
Prime(d, k) == IF k = 0 THEN d ELSE Prime(put_indices(d), k - 1)

\* DataLoaderIter.__init__ for the DataLoader dl and a sampler order
DataLoaderIter(dl, p, order) ==
    Prime([NoLoader EXCEPT !.state = "live", !.p = p, !.num_workers = dl.num_workers,
                           !.batches = BatchSampler(order, dl.batch_size, dl.drop_last),
                           !.busy = [i \in 1..dl.num_workers |-> <<>>]],
          2 * dl.num_workers)

\* DataLoaderIter._process_next_batch
process_next_batch(d, batch) ==
    LET d1 == put_indices([d EXCEPT !.rcvd_idx = @ + 1]) IN
    [d1 EXCEPT !.out = Append(@, batch), !.in_next = FALSE]

\* Dataset.batch_iter(num_workers > 0): iter(self._batch_iterable(...))
BatchIterWorkers ==
    /\ Running
    /\ inst # NoInst
    /\ Variant(inst.cls) = "Dataset"
    /\ dlIter = NoLoader
    /\ \E p \in Params, num_workers \in 1..MaxWorkers :
         LET dl == Dataset_batch_iterable(p, num_workers) IN
         \E order \in Orders(len(inst), dl.shuffle) :
             /\ dlIter' = DataLoaderIter(dl, p, order)
             /\ ret' = Returned("batch_iter", <<p, num_workers>>, <<>>)
    /\ UNCHANGED <<classes, inst, iters, nLoads>>

\* _worker_loop: r = index_queue.get()
WorkerGet ==
    \E i \in 1..dlIter.num_workers :
        /\ dlIter.state = "live"
        /\ dlIter.busy[i] = <<>>
        /\ dlIter.index_queue # <<>>
        /\ dlIter' = [dlIter EXCEPT !.busy[i] = Head(dlIter.index_queue),
                                    !.index_queue = Tail(@)]
        /\ UNCHANGED <<classes, inst, iters, ret, nLoads>>

\* _worker_loop: samples = collate_fn([dataset[i] for i in batch_indices]);
\* data_queue.put((idx, samples))
WorkerPut ==
    \E i \in 1..dlIter.num_workers :
        /\ dlIter.state = "live"
        /\ dlIter.busy[i] # <<>>
        /\ LET idx == dlIter.busy[i][1]
               batch_indices == dlIter.busy[i][2]
               samples == numpy_collate([k \in 1..Len(batch_indices) |->
                                           getitem(inst, batch_indices[k])])
           IN dlIter' = [dlIter EXCEPT !.busy[i] = <<>>,
                                       !.data_queue = Append(@, <<idx, samples>>)]
        /\ UNCHANGED <<classes, inst, iters, ret, nLoads>>

\* DataLoaderIter.__next__ with num_workers > 0, one turn of its loop per step:
\* the batch rcvd_idx out of reorder_dict if it is there; StopIteration when
\* nothing is outstanding; else take from data_queue (waiting for a worker),
\* and return the batch if it is the one awaited or store it and go on.
WorkersNext ==
    LET d == dlIter IN
    /\ d.state = "live"
    /\ IF ~d.in_next /\ \E e \in d.reorder_dict : e[1] = d.rcvd_idx
       THEN LET e == CHOOSE e \in d.reorder_dict : e[1] = d.rcvd_idx IN
            /\ dlIter' = process_next_batch([d EXCEPT !.reorder_dict = @ \ {e}], e[2])
            /\ ret' = Returned("next", <<"workers">>, <<>>)
       ELSE IF d.batches_outstanding = 0
       THEN /\ dlIter' = [d EXCEPT !.state = IF d.in_next THEN "AssertionError" ELSE "done"]
            /\ ret' = Raised("next", <<"workers">>,
                             IF d.in_next THEN "AssertionError" ELSE "StopIteration",
                             "None", <<>>)
       ELSE /\ d.data_queue # <<>>
            /\ LET idx == Head(d.data_queue)[1]
                   batch == Head(d.data_queue)[2]
                   d1 == [d EXCEPT !.data_queue = Tail(@), !.batches_outstanding = @ - 1]
               IN IF idx # d.rcvd_idx
                  THEN /\ dlIter' = [d1 EXCEPT !.reorder_dict = @ \cup {<<idx, batch>>},
                                               !.in_next = TRUE]
                       /\ ret' = ret
                  ELSE /\ dlIter' = process_next_batch(d1, batch)
                       /\ ret' = Returned("next", <<"workers">>, <<>>)
    /\ UNCHANGED <<classes, inst, iters, nLoads>>

\* An indexed dataset of a user's class
NewDataset ==
    \E n \in 0..MaxN :
        /\ Running
        /\ Construct("clsD", [n |-> n, skew |-> 0])

----------------------------------------------------------------------------

Init ==
    /\ classes = [c \in ClassNames |-> NoAttrs]
    /\ inst = NoInst
    /\ iters = <<>>
    /\ ret = Returned("None", <<>>, <<>>)
    /\ nLoads = 0
    /\ dlIter = NoLoader

NextLoader == Load

SpecLoader == Init /\ [][NextLoader]_vars

\* Iteration over one instance
NextIter ==
    \/ FromFn
    \/ New
    \/ Iter
    \/ BatchIter
    \/ BatchTrainIter
    \/ BatchPredictIter
    \/ Pull

SpecIter == Init /\ [][NextIter]_vars

\* load_all on an instance, possibly one partly iterated
NextLoadAll ==
    \/ FromFn
    \/ New
    \/ Iter
    \/ Pull
    \/ LoadAll

SpecLoadAll == Init /\ [][NextLoadAll]_vars

\* A preloaded dataset made from a function or from data
NextPreloaded ==
    \/ FromFn
    \/ FromData
    \/ New
    \/ LoadAll

SpecPreloaded == Init /\ [][NextPreloaded]_vars

\* An indexed dataset iterated with worker processes
NextWorkers ==
    \/ NewDataset
    \/ BatchIterWorkers
    \/ WorkerGet
    \/ WorkerPut
    \/ WorkersNext

SpecWorkers == Init /\ [][NextWorkers]_vars

Next == NextLoader \/ NextIter \/ LoadAll \/ NextWorkers \/ FromData

Spec == Init /\ [][Next]_vars

----------------------------------------------------------------------------
(* Properties of get_dataloader_factory, checked under SpecLoader *)

LastLoad == ret.call[1]

IsLoad == ret.op = "get_dataloader_factory"

\* C1: a load gets past argument validation only when the candidate's
\* parameter names equal the declared argument names exactly; for a known
\* variant every pair of differing sets makes the load fail with
\* ArgumentMismatch (a ValueError), whose message reports both sets.
C1_ArgumentValidation ==
    IsLoad =>
        /\ ret.kind \notin {"UnknownVariant", "ArgumentMismatch"}
             => getargs(LastLoad.defined_as) = LastLoad.args
        /\ (LastLoad.type \in AVAILABLE_DATALOADERS
            /\ getargs(LastLoad.defined_as) # LastLoad.args)
             => /\ ret.exc = "ValueError"
                /\ ret.kind = "ArgumentMismatch"
                /\ ret.msg = <<getargs(LastLoad.defined_as), LastLoad.args>>

\* declared {a,b} against actual {a,c}, reported in the failure
C1_Witness ==
    /\ IsLoad
    /\ ret.kind = "ArgumentMismatch"
    /\ LastLoad.args = {"a", "b"}
    /\ ret.msg = <<{"a", "c"}, {"a", "b"}>>

FailFastKinds == {"UnknownVariant", "ArgumentMismatch", "ContractMismatch"}

\* C2: a load that fails with UnknownVariant, ArgumentMismatch or
\* ContractMismatch leaves every class as it was (no from_fn binding, no
\* attribute attached) and creates no instance.
C2_FailFast ==
    [][(nLoads' = nLoads + 1 /\ ret'.kind \in FailFastKinds)
         => (classes' = classes /\ inst' = inst)]_vars

\* a failed load after one that bound something
C2_Witness ==
    /\ IsLoad
    /\ ret.kind \in FailFastKinds
    /\ \E c \in ClassNames : classes[c] # NoAttrs

SevenVariants ==
    {"PreloadedDataset", "Dataset", "BatchDataset", "SampleIterator",
     "SampleGenerator", "BatchIterator", "BatchGenerator"}

\* C3: a declared variant outside the seven known ones makes the load fail
\* with UnknownVariant, whatever else is wrong with the description, and no
\* other load fails that way.
C3_UnknownVariantFirst ==
    IsLoad =>
        /\ LastLoad.type \notin SevenVariants
             => (ret.exc = "ValueError" /\ ret.kind = "UnknownVariant")
        /\ ret.kind = "UnknownVariant" => LastLoad.type \notin SevenVariants

\* an unknown variant together with an argument mismatch and a candidate
\* that is no subclass of anything
C3_Witness ==
    /\ IsLoad
    /\ ret.kind = "UnknownVariant"
    /\ getargs(LastLoad.defined_as) # LastLoad.args
    /\ LastLoad.defined_as = "clsX"

\* C4: for a variant that is not function-derived a factory is returned only
\* for a subtype of the variant's class, and any other candidate fails with
\* ContractMismatch; for a function-derived variant a class candidate is
\* rejected and never bound with from_fn.
C4_ContractCheck ==
    (IsLoad /\ LastLoad.type \in SevenVariants
            /\ getargs(LastLoad.defined_as) = LastLoad.args) =>
        LET c == LastLoad.defined_as
            subtype == c \in UserClasses /\ Base(c) = LastLoad.type
        IN /\ (LastLoad.type \notin DATALOADERS_AS_FUNCTIONS /\ ret.exc = "None") => subtype
           /\ (LastLoad.type \notin DATALOADERS_AS_FUNCTIONS /\ ~subtype)
                => (ret.exc = "ValueError" /\ ret.kind = "ContractMismatch")
           /\ (LastLoad.type \in DATALOADERS_AS_FUNCTIONS /\ c \in UserClasses)
                => (ret.exc # "None" /\ classes[LastLoad.type].fn # c)

\* A factory was returned for class c: the last attribute of a successful
\* load is on it
IsFactory(cl, c) == cl[c].print_args

\* C14: a factory returned by get_dataloader_factory is isolated from later
\* loads: a load of another loader changes neither the function bound behind a
\* factory returned before nor the metadata it carries (defined_as, args,
\* example_kwargs, source_dir, ...).
C14_FactoryIsolation ==
    [][(nLoads' = nLoads + 1 /\ ret'.exc = "None") =>
         \A c \in ClassNames :
             (IsFactory(classes, c) /\ classes[c].defined_as # ret'.call[1].defined_as)
                 => classes'[c] = classes[c]]_vars

\* Class t carries everything a load of dl attaches: the from_fn binding for a
\* function-derived variant, the attributes copied from the description, and
\* example_kwargs, init_example, print_args
FullyBound(cl, t, dl) ==
    /\ dl.type \in DATALOADERS_AS_FUNCTIONS => cl[t].fn = dl.defined_as
    /\ cl[t].type = dl.type
    /\ cl[t].defined_as = dl.defined_as
    /\ cl[t].args = <<dl.args>>
    /\ cl[t].info = dl.name
    /\ cl[t].output_schema = dl.name
    /\ cl[t].dependencies = dl.name
    /\ cl[t].postprocessing = dl.name
    /\ cl[t].yaml_path = dl.name
    /\ cl[t].source = "kipoi"
    /\ cl[t].source_dir = dl.name
    /\ cl[t].example_kwargs = dl.name
    /\ cl[t].init_example
    /\ cl[t].print_args

\* C15: get_dataloader_factory is all-or-nothing: a call either returns a
\* factory carrying the from_fn binding and every attribute, or, failing at
\* whatever point (also after validation, while the example arguments are
\* computed), leaves every class as it was.
C15_AllOrNothing ==
    [][nLoads' = nLoads + 1 =>
         IF ret'.exc = "None"
         THEN FullyBound(classes', ret'.val[1], ret'.call[1])
         ELSE classes' = classes]_vars

----------------------------------------------------------------------------
(* Properties of construction and iteration, checked under SpecIter *)

IterIds == 1..Len(iters)

\* Integer division rounding up
CeilDiv(n, b) == (n + b - 1) \div b

\* C8: constructing a preloaded dataset whose leaves show more than one
\* first-axis length fails at construction (the assert of __init__), and a
\* constructed preloaded dataset has len() equal to the one length all its
\* leaves share.
C8_UniformLength ==
    /\ (ret.op = "__init__" /\ ret.call[1] = "PreloadedDataset"
        /\ classes["PreloadedDataset"].fn # "None"
        /\ ret.call[2].skew # 0)
         => (ret.exc = "AssertionError" /\ ret.kind = "DimensionMismatch" /\ inst = NoInst)
    /\ inst.cls = "PreloadedDataset"
         => (len(inst) = Len(inst.data.inputs) /\ len(inst) = Len(inst.data.targets))

\* leaves of lengths [3, 2] refused
C8_Witness ==
    /\ ret.op = "__init__"
    /\ ret.kind = "DimensionMismatch"
    /\ ret.call[2] = [n |-> 3, skew |-> 1]

\* C6: batch_iter(batch_size=b, shuffle=False) of a preloaded dataset of n
\* samples goes through ceil(n/b) batches, or floor(n/b) under drop_last;
\* batch j is samples (j-1)*b .. in index order, b of them except for a last
\* batch of n mod b; and the iterator yields these batches in order.
C6_PreloadedBatches ==
    \A k \in IterIds :
        (inst.cls = "PreloadedDataset" /\ iters[k].op = "batch_iter" /\ ~iters[k].p.shuffle) =>
            LET it == iters[k]
                b == it.p.batch_size
                n == len(inst)
                size(j) == IF j * b <= n THEN b ELSE n % b
            IN /\ Len(it.pass) = IF it.p.drop_last THEN n \div b ELSE CeilDiv(n, b)
               /\ \A j \in 1..Len(it.pass) :
                    /\ it.pass[j].inputs =
                         [i \in 1..size(j) |-> inst.data.inputs[(j - 1) * b + i]]
                    /\ it.pass[j].targets =
                         [i \in 1..size(j) |-> inst.data.targets[(j - 1) * b + i]]
               /\ it.out = SubSeq(it.pass, 1, it.pos)
               /\ it.state = "done" => it.pos = Len(it.pass)

\* 3 samples in batches of 2, all of them yielded: sizes [2, 1]
C6_Witness ==
    \E k \in IterIds :
        /\ inst.cls = "PreloadedDataset" /\ len(inst) = 3
        /\ iters[k].op = "batch_iter"
        /\ iters[k].p = [batch_size |-> 2, shuffle |-> FALSE, drop_last |-> FALSE]
        /\ iters[k].state = "done"
        /\ Len(iters[k].out) = 2
        /\ Len(iters[k].out[1].inputs) = 2 /\ Len(iters[k].out[2].inputs) = 1

\* The passes batch_iter(**p) can go through on the instance, whatever function
\* was bound on its class when the call was made
AnyPass(p) ==
    IF Variant(inst.cls) \in {"SampleGenerator", "BatchGenerator"}
    THEN UNION {batch_iter([classes EXCEPT ![inst.cls].fn = f], inst, p) : f \in Functions}
    ELSE batch_iter(classes, inst, p)

\* The user's items an iterator instance ever gives, from its start
AllItems ==
    IF Variant(inst.cls) = "SampleIterator"
    THEN Samples(inst.cls, inst.args.n) ELSE UserBatches(inst.cls, inst.args.n)

RECURSIVE FlatInputs(_, _)
FlatInputs(op, out) ==
    IF out = <<>> THEN <<>>
    ELSE (IF op = "batch_train_iter" THEN Head(out)[1] ELSE Head(out)) \o FlatInputs(op, Tail(out))

\* C9: batch_train_iter(cycle=False) yields, for each batch of batch_iter with
\* the same parameters and in the same order, the pair (inputs, targets) of that
\* batch, batch_predict_iter its inputs, and both end exactly when the batches
\* are exhausted.
C9_TrainPredictProjection ==
    \A k \in IterIds :
        (iters[k].op \in {"batch_train_iter", "batch_predict_iter"} /\ ~iters[k].cycle) =>
            LET it == iters[k] IN
            IF it.own
            THEN /\ it.pass \in AnyPass(it.p)
                 /\ Len(it.out) = it.pos
                 /\ \A j \in 1..it.pos :
                      it.out[j] = IF it.op = "batch_train_iter"
                                  THEN <<it.pass[j].inputs, it.pass[j].targets>>
                                  ELSE it.pass[j].inputs
                 /\ it.state = "done" => it.pos = Len(it.pass)
            ELSE /\ it.state = "done" => Remaining(inst) = <<>>
                 /\ \A j \in 1..Len(it.out) :
                      \E b \in 1..Len(AllItems) :
                        LET x == IF Variant(inst.cls) = "SampleIterator"
                                 THEN {numpy_collate(SubSeq(AllItems, b, e)) :
                                         e \in b..Len(AllItems)}
                                 ELSE {AllItems[b]}
                        IN it.out[j] \in {IF it.op = "batch_train_iter"
                                          THEN <<y.inputs, y.targets>> ELSE y.inputs : y \in x}
                 /\ Len(iters) = 1 =>
                      FlatInputs(it.op, it.out) =
                        numpy_collate_concat(
                          IF Variant(inst.cls) = "SampleIterator"
                          THEN <<numpy_collate(SubSeq(AllItems, 1, inst.pos))>>
                          ELSE SubSeq(AllItems, 1, inst.pos)).inputs

\* a finished batch_train_iter(cycle=False) that yielded two pairs
C9_Witness ==
    \E k \in IterIds :
        /\ iters[k].op = "batch_train_iter" /\ ~iters[k].cycle
        /\ iters[k].state = "done"
        /\ Len(iters[k].out) = 2

\* The batches one pass over the instance's source gives, from its start,
\* without shuffling
SourceBatches(p) ==
    IF SharesCursor(inst)
    THEN (IF Variant(inst.cls) = "SampleIterator"
          THEN batch_gen(AllItems, p.batch_size) ELSE AllItems)
    ELSE CHOOSE pass \in batch_iter(classes, inst, [p EXCEPT !.shuffle = FALSE]) : TRUE

\* C5: batch_train_iter(cycle=True) over a source that gives m > 0 batches per
\* pass never ends and never gets stuck: after the last batch it starts again
\* from the first, so its k-th pair (from 0) is (inputs, targets) of batch
\* k mod m.
C5_CycleRestarts ==
    \A k \in IterIds :
        (iters[k].cycle /\ ~iters[k].p.shuffle /\ FnBound(classes, inst)
         /\ Len(SourceBatches(iters[k].p)) > 0) =>
            LET it == iters[k]
                src == SourceBatches(it.p)
            IN /\ it.state = "live"
               /\ \A j \in 1..Len(it.out) :
                    it.out[j] = <<src[((j - 1) % Len(src)) + 1].inputs,
                                  src[((j - 1) % Len(src)) + 1].targets>>

\* C10: every iter() on an instance of a function-derived generator gives a new
\* stream of the bound function called with the instance's arguments: any two
\* such streams hold the same items in the same order, and each has yielded
\* exactly the items up to its own position.
C10_IndependentStreams ==
    \A j, k \in IterIds :
        (Variant(inst.cls) \in {"SampleGenerator", "BatchGenerator"}
         /\ iters[j].op = "iter" /\ iters[k].op = "iter") =>
            /\ iters[j].pass = iters[k].pass
            /\ iters[j].out = SubSeq(iters[j].pass, 1, iters[j].pos)

\* Consecutive groups of b of a sequence of samples, each collated: group j is
\* samples (j-1)*b+1 .. j*b, the last one up to the end
Greedy(samples, b) ==
    LET n == Len(samples) IN
    [j \in 1..CeilDiv(n, b) |->
       numpy_collate(SubSeq(samples, (j - 1) * b + 1, IF j * b <= n THEN j * b ELSE n))]

\* C12: batch_iter(batch_size=b) of a sample-streaming source that gives n
\* samples yields ceil(n/b) batches of consecutive samples in stream order, b
\* in each but for a last one of n mod b, every sample once; no batch for an
\* empty stream.  For a SampleIterator the stream is what is left of the
\* instance's iterator.
C12_GreedyGrouping ==
    \A k \in IterIds :
        (iters[k].op = "batch_iter"
         /\ Variant(inst.cls) \in {"SampleIterator", "SampleGenerator"}) =>
            LET it == iters[k]
                b == it.p.batch_size
            IN /\ \A j \in 1..Len(it.out) :
                    /\ Len(it.out[j].inputs) \in 1..b
                    /\ j < Len(it.out) => Len(it.out[j].inputs) = b
               /\ IF it.own
                  THEN /\ \E f \in Functions : it.pass = Greedy(Samples(f, inst.args.n), b)
                       /\ Len(it.pass) = CeilDiv(inst.args.n, b)
                       /\ it.out = SubSeq(it.pass, 1, it.pos)
                       /\ it.state = "done" => it.pos = Len(it.pass)
                  ELSE Len(iters) = 1 =>
                       /\ Len(it.out) <= CeilDiv(inst.args.n, b)
                       /\ it.out = SubSeq(Greedy(AllItems, b), 1, Len(it.out))
                       /\ it.state = "done" => it.out = Greedy(AllItems, b)

\* a SampleIterator of 3 samples in batches of 2, exhausted: sizes [2, 1]
C12_Witness ==
    \E k \in IterIds :
        /\ inst.cls = "clsS" /\ inst.args.n = 3
        /\ Len(iters) = 1
        /\ iters[k].op = "batch_iter" /\ iters[k].p.batch_size = 2
        /\ iters[k].state = "done"
        /\ Len(iters[k].out) = 2
        /\ Len(iters[k].out[1].inputs) = 2 /\ Len(iters[k].out[2].inputs) = 1

\* C13: batch_iter of a batch-indexed dataset of length L yields exactly L
\* batches, the k-th being the pre-built batch at index k, in order, whatever
\* batch_size, shuffle and drop_last the caller passes.
C13_PrebuiltBatches ==
    \A k \in IterIds :
        (Variant(inst.cls) = "BatchDataset" /\ iters[k].op = "batch_iter") =>
            LET it == iters[k] IN
            /\ Len(it.pass) = len(inst)
            /\ \A j \in 1..Len(it.pass) : it.pass[j] = getitem(inst, j - 1)
            /\ it.out = SubSeq(it.pass, 1, it.pos)
            /\ it.state = "done" => Len(it.out) = len(inst)

\* 2 pre-built batches, of 2 and 1 samples, both yielded by
\* batch_iter(batch_size=2, shuffle=True, drop_last=True)
C13_Witness ==
    \E k \in IterIds :
        /\ inst.cls = "clsBD" /\ len(inst) = 2
        /\ iters[k].op = "batch_iter"
        /\ iters[k].p = [batch_size |-> 2, shuffle |-> TRUE, drop_last |-> TRUE]
        /\ iters[k].state = "done"
        /\ Len(iters[k].out) = 2
        /\ Len(iters[k].out[1].inputs) = 2 /\ Len(iters[k].out[2].inputs) = 1

----------------------------------------------------------------------------
(* Properties of load_all, checked under SpecLoadAll *)

\* The batches batch_iter(**p) yields when called in the state load_all is
\* called in
BatchesNow(p) ==
    IF SharesCursor(inst) THEN {Cursor_batch_iter(inst, p)} ELSE batch_iter(classes, inst, p)

LoadAllStep == ret'.op = "load_all" /\ ret'.exc = "None"

\* C7: for every variant and all parameters, load_all(**params) is the
\* concatenation, in order, of the batches batch_iter(**params) yields.
C7_LoadAllIsConcat ==
    [][LoadAllStep =>
         ret'.val[1] \in {numpy_collate_concat(pass) : pass \in BatchesNow(ret'.call[1])}]_vars

\* C7 as amended: that holds for every variant but the preloaded dataset,
\* whose load_all ignores the parameters and returns the stored structure; for
\* a non-empty preloaded dataset the stored structure is the concatenation of
\* the batches when shuffle and drop_last are both false.
C7_LoadAllAmended ==
    [][LoadAllStep =>
         IF Variant(inst.cls) = "PreloadedDataset"
         THEN /\ ret'.val[1] = inst.data
              /\ (len(inst) > 0 /\ ~ret'.call[1].shuffle /\ ~ret'.call[1].drop_last) =>
                   \A pass \in BatchesNow(ret'.call[1]) :
                       ret'.val[1] = numpy_collate_concat(pass)
         ELSE ret'.val[1] \in
                {numpy_collate_concat(pass) : pass \in BatchesNow(ret'.call[1])}]_vars

\* load_all(batch_size=2, drop_last=True) on a preloaded dataset of 3 samples
\* gives all 3
C7_Witness ==
    /\ ret.op = "load_all" /\ ret.exc = "None"
    /\ ret.call[1] = [batch_size |-> 2, shuffle |-> FALSE, drop_last |-> TRUE]
    /\ inst.cls = "PreloadedDataset"
    /\ inst.args.n = 3
    /\ Len(ret.val[1].inputs) = 3

----------------------------------------------------------------------------
(* Properties of iteration with worker processes, checked under SpecWorkers *)

\* The batches of an indexed dataset by index range: batch j holds the samples
\* (j-1)*b .. of the instance, b of them, or the n mod b that are left
IndexRangeBatches(p) ==
    LET b == p.batch_size
        n == len(inst)
        size(j) == IF j * b <= n THEN b ELSE n % b
    IN [j \in 1..(IF p.drop_last THEN n \div b ELSE CeilDiv(n, b)) |->
          numpy_collate([i \in 1..size(j) |-> getitem(inst, (j - 1) * b + i - 1)])]

\* C11: an indexed dataset iterated with num_workers > 0 and shuffle=False
\* yields its batches in index order however the workers' completions
\* interleave: the j-th batch yielded is the j-th index range, the iterator
\* ends only after every batch was yielded once, and the sequence is the one
\* batch_iter gives with num_workers=0.
C11_WorkerOrder ==
    (dlIter.state # "none" /\ dlIter.num_workers > 0 /\ ~dlIter.p.shuffle) =>
        /\ dlIter.state \in {"live", "done"}
        /\ Len(dlIter.out) <= Len(IndexRangeBatches(dlIter.p))
        /\ dlIter.out = SubSeq(IndexRangeBatches(dlIter.p), 1, Len(dlIter.out))
        /\ dlIter.state = "done" => dlIter.out = IndexRangeBatches(dlIter.p)
        /\ \A pass \in Dataset_batch_iter(inst, dlIter.p) :
             dlIter.out = SubSeq(pass, 1, Len(dlIter.out))

\* batch 0 yielded, and batch 2 received from a worker before batch 1
C11_Witness ==
    /\ dlIter.state = "live"
    /\ ~dlIter.p.shuffle
    /\ dlIter.rcvd_idx = 1
    /\ Len(dlIter.out) = 1
    /\ \E e \in dlIter.reorder_dict : e[1] = 2

----------------------------------------------------------------------------
(* Properties of from_data, checked under SpecPreloaded *)

\* C16: PreloadedDataset.from_data(data), for data whose leaves share one
\* first-axis length n, returns a preloaded dataset with len() = n, whose
\* load_all() is data and whose item at index i is the slice of every leaf at
\* i.
C16_FromData ==
    ret.op = "from_data" =>
        LET data == ret.call[1] IN
        /\ ret.exc = "None"
        /\ inst.cls = "PreloadedDataset"
        /\ len(inst) = Len(data.inputs)
        /\ load_all(classes, inst, DefaultParams) = {data}
        /\ \A i \in 0..(len(inst) - 1) : getitem(inst, i) = get_dataset_item(data, i)

====
